---------------------------- MODULE Spec2Model ----------------------------
(***************************************************************************)
(* Speaking clock detection (ina-foss/speaking-clock-detection).            *)
(*                                                                         *)
(* The module holds one specification per entry point of the repository:   *)
(*   SpecSeg     segment_axis, the framing used by my_specgram             *)
(*   Spec        wavdata2bip followed by is_bip_pattern on one channel     *)
(*   SpecPattern is_bip_pattern on bip lists and durations                 *)
(*   SpecSelect  speaking_clock_detection, the loop over the channels      *)
(*   SpecPhase   phase_inversion_detection                                 *)
(*   SpecPool    decode_media run by concurrent analyses                   *)
(*                                                                         *)
(* Units.  A bip time is kept as its frame index: wavdata2bip returns      *)
(* idx * step_sec with step_sec = 0.008, so a time of t frames is t*8 ms.  *)
(* A duration is kept as a number of samples: the callers pass             *)
(* wav_data.shape[0] / 4000.  Every comparison of the code between such    *)
(* quantities is made on cross-multiplied integers.                        *)
(***************************************************************************)
EXTENDS Integers, Sequences, FiniteSets, TLC

VARIABLES
    \* my_specgram: segment_axis(data, winlen, winlen - steplen)
    seg_pc, seg_data, seg_winlen, seg_steplen, seg_ret,
    \* wavdata2bip(wavdata) and is_bip_pattern(bips, len(wavdata)/4000.)
    pc, wavdata, specgram, cand, bips, verdict, exc,
    \* is_bip_pattern(bip_list, dur), dur in samples
    pat_pc, pat_bips, pat_dur, pat_ret,
    \* speaking_clock_detection: the loop over the channels and its result
    sel_pc, sel_chan, sel_dur, sel_i, sel_ret, sel_out, sel_token,
    \* phase_inversion_detection(infname)
    ph_pc, ph_nbchan, ph_wav, ph_out,
    \* concurrent analyses: the jobs and the files of the temporary directory
    job, tmpfiles,
    \* contiguous_regions(booltab)
    reg_pc, reg_bool, reg_ret

segVars == <<seg_pc, seg_data, seg_winlen, seg_steplen, seg_ret>>
chanVars == <<pc, wavdata, specgram, cand, bips, verdict, exc>>
patVars == <<pat_pc, pat_bips, pat_dur, pat_ret>>
selVars == <<sel_pc, sel_chan, sel_dur, sel_i, sel_ret, sel_out, sel_token>>
phVars == <<ph_pc, ph_nbchan, ph_wav, ph_out>>
poolVars == <<job, tmpfiles>>
regVars == <<reg_pc, reg_bool, reg_ret>>
restVars == <<selVars, phVars, poolVars, regVars>>
vars == <<segVars, chanVars, patVars, restVars>>

(***************************************************************************)
(* Bounds of the model.                                                    *)
(***************************************************************************)
MaxWin == 4
MaxLen == 12

(***************************************************************************)
(* Helpers on sequences.                                                   *)
(***************************************************************************)
Range(s) == {s[i] : i \in 1..Len(s)}

RECURSIVE SumSeq(_)
SumSeq(s) == IF s = <<>> THEN 0 ELSE s[1] + SumSeq(Tail(s))

(***************************************************************************)
(* segment_axis(a, length, overlap, axis=None, end, endvalue=0): the array *)
(* is one-dimensional, a sequence.  The result is either the frames or the *)
(* exception raised.                                                       *)
(***************************************************************************)
Raised(e) == [err |-> e, frames |-> <<>>]
Returned(f) == [err |-> "none", frames |-> f]

segment_axis(a, length, overlap, end) ==
    LET l == Len(a)
        step == length - overlap
    IN  IF overlap >= length THEN Raised("ValueError")
        ELSE IF overlap < 0 \/ length <= 0 THEN Raised("ValueError")
        ELSE
          LET uneven == l < length \/ (l - length) % step # 0
              roundup == IF l > length
                         THEN length + (1 + (l - length) \div step) * step
                         ELSE length
              rounddown == IF l > length
                           THEN length + ((l - length) \div step) * step
                           ELSE 0
              b == IF ~uneven THEN a
                   ELSE IF end = "cut" THEN SubSeq(a, 1, rounddown)
                   ELSE IF end = "pad"
                     THEN [i \in 1..roundup |-> IF i <= l THEN a[i] ELSE 0]
                   ELSE IF end = "wrap"
                     THEN [i \in 1..roundup |-> IF i <= l THEN a[i] ELSE a[i - l]]
                   ELSE a
              l2 == Len(b)
              n == 1 + (l2 - length) \div step
          IN  IF uneven /\ ~(rounddown < l /\ l < roundup)
                THEN Raised("AssertionError")
              ELSE IF uneven /\ ~(roundup = rounddown + step
                                  \/ (roundup = length /\ rounddown = 0))
                THEN Raised("AssertionError")
              ELSE IF uneven /\ end = "wrap" /\ roundup - l > l
                THEN Raised("ValueError")
              ELSE IF l2 = 0 THEN Raised("ValueError")
              ELSE IF l2 < length \/ (l2 - length) % step # 0
                THEN Raised("AssertionError")
              ELSE Returned([k \in 1..n |->
                       SubSeq(b, (k - 1) * step + 1, (k - 1) * step + length)])

(***************************************************************************)
(* my_specgram frames its data with                                        *)
(*   segment_axis(data, winlen, winlen - steplen)                          *)
(* that is with the default end='cut'.                                     *)
(***************************************************************************)
framed_wrap(data, winlen, steplen) ==
    segment_axis(data, winlen, winlen - steplen, "wrap")

framed_pad(data, winlen, steplen) ==
    segment_axis(data, winlen, winlen - steplen, "pad")

framed(data, winlen, steplen) ==
    segment_axis(data, winlen, winlen - steplen, "cut")

(***************************************************************************)
(* preemp(input, p) with p = 0.97: y[n] = x[n] - 0.97 x[n-1], x[-1] = 0.   *)
(* The samples are kept 100 times larger, which changes no comparison of   *)
(* the detector: the energy ratio and the relative energy threshold are    *)
(* both invariant under a positive scaling of the signal.                  *)
(***************************************************************************)
PreempPct == 97

preemp(input) ==
    [n \in 1..Len(input) |->
        100 * input[n] - PreempPct * (IF n = 1 THEN 0 ELSE input[n - 1])]

(***************************************************************************)
(* wavdata2bip, lines 140-146: 32 ms windows and 8 ms steps at 4 kHz.      *)
(***************************************************************************)
SampleRate == 4000
WinMs == 32
StepMs == 8
winlen == (WinMs * SampleRate) \div 1000
step == (StepMs * SampleRate) \div 1000

(***************************************************************************)
(* The spectrogram.  A row of my_specgram's result is kept as the two sums *)
(* wavdata2bip takes of it: near, the magnitudes of the three bins of      *)
(* energy_idx(winlen) around 1000 Hz, and rest, those of the other bins.   *)
(* The magnitudes are those of the transform of frame * hamming window:    *)
(* they are non-negative, and all zero when the frame is all zero.  For    *)
(* any other frame the model lets the row be any of a few levels.          *)
(***************************************************************************)
ZeroRow == [near |-> 0, rest |-> 0]
Noise == [near |-> 1, rest |-> 9]
Half == [near |-> 2, rest |-> 2]
Quiet == [near |-> 3, rest |-> 1]
Loud == [near |-> 15, rest |-> 5]
Levels == {Noise, Half, Quiet, Loud}

IsZeroFrame(f) == \A j \in 1..Len(f) : f[j] = 0

energy_1000hz(spec) == [k \in 1..Len(spec) |-> spec[k].near]
energy_all(spec) == [k \in 1..Len(spec) |-> spec[k].near + spec[k].rest]

(***************************************************************************)
(* wavdata2bip, lines 153-155: the guard against a division by zero.  The  *)
(* ratio of a frame is kept as its numerator and its denominator.          *)
(***************************************************************************)
guarded_1000hz(spec) ==
    [k \in 1..Len(spec) |->
        IF energy_all(spec)[k] = 0 THEN 0 ELSE energy_1000hz(spec)[k]]

unguarded_all(spec) == energy_all(spec)

guarded_all(spec) ==
    [k \in 1..Len(spec) |->
        IF energy_all(spec)[k] = 0 THEN 1 ELSE energy_all(spec)[k]]

energy_ratio(spec) ==
    [k \in 1..Len(spec) |->
        [num |-> guarded_1000hz(spec)[k], den |-> guarded_all(spec)[k]]]

\* energy_ratio > 0.5; a ratio 0/0 is not-a-number, which compares false
above_half(spec) ==
    [k \in 1..Len(spec) |->
        LET r == energy_ratio(spec)[k]
        IN  r.den # 0 /\ 2 * r.num > r.den]

(***************************************************************************)
(* contiguous_regions(booltab): the indices are 0-based as in the code.    *)
(* The result is the sequence of the rows <<start, duration>> of idx.      *)
(***************************************************************************)
\* the same without the shift idx += 1
contiguous_regions_noshift(booltab) ==
    LET size == Len(booltab)
        changes == SelectSeq([i \in 1..(size - 1) |-> i - 1],
                             LAMBDA i : booltab[i + 1] # booltab[i + 2])
        withstart == IF booltab[1] THEN <<0>> \o changes ELSE changes
        idx == IF booltab[size] THEN withstart \o <<size>> ELSE withstart
    IN  [r \in 1..(Len(idx) \div 2) |->
            <<idx[2 * r - 1], idx[2 * r] - idx[2 * r - 1]>>]

contiguous_regions(booltab) ==
    LET size == Len(booltab)
        \* d = np.diff(booltab); idx, = d.nonzero(); idx += 1
        changes == SelectSeq([i \in 1..(size - 1) |-> i],
                             LAMBDA i : booltab[i] # booltab[i + 1])
        withstart == IF booltab[1] THEN <<0>> \o changes ELSE changes
        idx == IF booltab[size] THEN withstart \o <<size>> ELSE withstart
    IN  \* idx.shape = (-1, 2)
        [r \in 1..(Len(idx) \div 2) |->
            <<idx[2 * r - 1], idx[2 * r] - idx[2 * r - 1]>>]

(***************************************************************************)
(* wavdata2bip, lines 160-165: the duration filter, in milliseconds.       *)
(***************************************************************************)
MinDurMs == 80
MaxDurMs == 160

dur_ms(dur) == (dur - 1) * StepMs + WinMs

valid_durs_inclusive(dur) == dur_ms(dur) >= MinDurMs /\ dur_ms(dur) <= MaxDurMs

valid_durs(dur) == dur_ms(dur) > MinDurMs /\ dur_ms(dur) < MaxDurMs

(***************************************************************************)
(* wavdata2bip, lines 170-176: the relative energy filter.  The mean of    *)
(* energy_all over a candidate is kept as the sum and the duration.        *)
(***************************************************************************)
candidate_sum(spec, c) ==
    SumSeq(SubSeq(guarded_all(spec), c[1] + 1, c[1] + c[2]))

\* mean(a) <= mean(b)
MeanLeq(spec, a, b) ==
    candidate_sum(spec, a) * b[2] <= candidate_sum(spec, b) * a[2]

\* the same with the threshold included: candidate_energy >= 0.2 * max
valid_energy_geq(spec, cands, c) ==
    \E m \in Range(cands) :
        /\ \A o \in Range(cands) : MeanLeq(spec, o, m)
        /\ 5 * candidate_sum(spec, c) * m[2] >= candidate_sum(spec, m) * c[2]

\* candidate_energy > 0.2 * np.max(candidate_energy)
valid_energy(spec, cands, c) ==
    \E m \in Range(cands) :
        /\ \A o \in Range(cands) : MeanLeq(spec, o, m)
        /\ 5 * candidate_sum(spec, c) * m[2] > candidate_sum(spec, m) * c[2]

(***************************************************************************)
(* wavdata2bip from the spectrogram on: the candidates (line 158), the     *)
(* duration filter (lines 163-165) and the energy filter with the early    *)
(* return of lines 167-168.  The result is the sequence idx: the bip times *)
(* are idx * step_sec.                                                     *)
(***************************************************************************)
candidates(spec) == contiguous_regions(above_half(spec))

duration_filter(cands) == SelectSeq(cands, LAMBDA c : valid_durs(c[2]))

\* the same returning the frame after each kept run instead of its start
energy_filter_ends(spec, kept) ==
    IF Len(kept) = 0 THEN <<>>
    ELSE LET loud == SelectSeq(kept, LAMBDA c : valid_energy(spec, kept, c))
         IN  [k \in 1..Len(loud) |-> loud[k][1] + loud[k][2]]

energy_filter(spec, kept) ==
    IF Len(kept) = 0 THEN <<>>
    ELSE LET loud == SelectSeq(kept, LAMBDA c : valid_energy(spec, kept, c))
         IN  [k \in 1..Len(loud) |-> loud[k][1]]

\* line 178, idx * step_sec: the returned times, in milliseconds
bip_times_ms(idx) == [k \in 1..Len(idx) |-> idx[k] * StepMs]

(***************************************************************************)
(* is_bip_pattern(bip_list, dur).  bip_list holds frame indices (a time is *)
(* index * 0.008 s) and dur is given as samples, the duration in seconds   *)
(* being samples / 4000.                                                   *)
(***************************************************************************)
\* np.round(num / den) for den > 0: to the nearest integer, a tie to the even one
RoundHalfEven(num, den) ==
    LET q == num \div den
        r == num % den
    IN  IF 2 * r < den THEN q
        ELSE IF 2 * r > den THEN q + 1
        ELSE IF q % 2 = 0 THEN q ELSE q + 1

\* dbip = np.int32(np.round(np.diff(bip_list))), the gaps in seconds
dbip(bip_list) ==
    [k \in 1..(Len(bip_list) - 1) |->
        RoundHalfEven((bip_list[k + 1] - bip_list[k]) * StepMs, 1000)]

CountEq(s, v) == Cardinality({k \in 1..Len(s) : s[k] = v})

BipsPerMinute == 8
ValidFactor == 4
ShortDur == 60

\* x compared with est_bips * (tenths / 10), est_bips = dur / 60. * 8:
\* both sides multiplied by 10 * 60 * SampleRate
Scaled(x) == x * 10 * 60 * SampleRate
EstTimes(samples, tenths) == samples * BipsPerMinute * tenths

is_bip_pattern_strict(bip_list, samples) ==
    IF Len(bip_list) = 0 THEN FALSE
    ELSE
      LET d == dbip(bip_list)
          nb1 == CountEq(d, 1)
          nb10 == CountEq(d, 10)
          nb17 == CountEq(d, 17)
          nbother == Len(d) - nb1 - nb10 - nb17
      IN  /\ (nb1 + nb10 + nb17) > ValidFactor * nbother
          /\ Scaled(Len(d)) > EstTimes(samples, 8)
          /\ Scaled(Len(d)) < EstTimes(samples, 12)

is_bip_pattern_tight(bip_list, samples) ==
    IF Len(bip_list) = 0 THEN FALSE
    ELSE
      LET d == dbip(bip_list)
          nb1 == CountEq(d, 1)
          nb10 == CountEq(d, 10)
          nb17 == CountEq(d, 17)
          nbother == Len(d) - nb1 - nb10 - nb17
      IN  IF samples < ShortDur * SampleRate
          THEN /\ (nb1 + nb10 + nb17) > ValidFactor * nbother
               /\ Scaled(Len(d)) >= EstTimes(samples, 3)
               /\ Scaled(Len(d)) <= EstTimes(samples, 15)
          ELSE /\ (nb1 + nb10 + nb17) > ValidFactor * nbother
               /\ Scaled(Len(d)) > EstTimes(samples, 9)
               /\ Scaled(Len(d)) < EstTimes(samples, 12)

\* the same with valid >= 4 * invalid in place of valid > 4 * invalid
is_bip_pattern_lenient(bip_list, samples) ==
    IF Len(bip_list) = 0 THEN FALSE
    ELSE
      LET d == dbip(bip_list)
          nb1 == CountEq(d, 1)
          nb10 == CountEq(d, 10)
          nb17 == CountEq(d, 17)
          nbother == Len(d) - nb1 - nb10 - nb17
      IN  IF samples < ShortDur * SampleRate
          THEN /\ (nb1 + nb10 + nb17) >= ValidFactor * nbother
               /\ Scaled(Len(d)) >= EstTimes(samples, 3)
               /\ Scaled(Len(d)) <= EstTimes(samples, 15)
          ELSE /\ (nb1 + nb10 + nb17) >= ValidFactor * nbother
               /\ Scaled(Len(d)) > EstTimes(samples, 8)
               /\ Scaled(Len(d)) < EstTimes(samples, 12)

is_bip_pattern(bip_list, samples) ==
    IF Len(bip_list) = 0 THEN FALSE
    ELSE
      LET d == dbip(bip_list)
          nb1 == CountEq(d, 1)
          nb10 == CountEq(d, 10)
          nb17 == CountEq(d, 17)
          nbother == Len(d) - nb1 - nb10 - nb17
      IN  IF samples < ShortDur * SampleRate
          THEN /\ (nb1 + nb10 + nb17) > ValidFactor * nbother
               /\ Scaled(Len(d)) >= EstTimes(samples, 3)
               /\ Scaled(Len(d)) <= EstTimes(samples, 15)
          ELSE /\ (nb1 + nb10 + nb17) > ValidFactor * nbother
               /\ Scaled(Len(d)) > EstTimes(samples, 8)
               /\ Scaled(Len(d)) < EstTimes(samples, 12)

(***************************************************************************)
(* SpecSeg: the framing of an array of l samples, each sample standing for *)
(* its own 0-based position, for every window and step of the bounds (a    *)
(* step of 0, or one longer than the window, is refused by segment_axis).  *)
(***************************************************************************)
Positions(l) == [i \in 1..l |-> i - 1]

NoSel ==
    /\ sel_pc = "idle" /\ sel_chan = <<>> /\ sel_dur = 0 /\ sel_i = 0
    /\ sel_ret = <<>> /\ sel_out = <<>> /\ sel_token = <<>>

NoPhase == ph_pc = "idle" /\ ph_nbchan = 1 /\ ph_wav = <<>> /\ ph_out = <<>>

NoPool == job = <<>> /\ tmpfiles = {}

NoReg == reg_pc = "idle" /\ reg_bool = <<>> /\ reg_ret = <<>>

NoRest == NoSel /\ NoPhase /\ NoPool /\ NoReg

NoPat == pat_pc = "idle" /\ pat_bips = <<>> /\ pat_dur = 0 /\ pat_ret = FALSE

NoSeg ==
    /\ seg_pc = "idle" /\ seg_data = <<>> /\ seg_winlen = 1 /\ seg_steplen = 1
    /\ seg_ret = Returned(<<>>)

NoChan ==
    /\ pc = "idle" /\ wavdata = <<>> /\ specgram = <<>> /\ cand = <<>>
    /\ bips = <<>> /\ verdict = FALSE /\ exc = "none"

InitSeg ==
    /\ seg_pc = "call"
    /\ seg_winlen \in 1..MaxWin
    /\ seg_steplen \in 0..(seg_winlen + 1)
    /\ \E l \in 0..MaxLen : seg_data = Positions(l)
    /\ seg_ret = Returned(<<>>)
    /\ NoChan /\ NoPat /\ NoRest

SegCall ==
    /\ seg_pc = "call"
    /\ seg_ret' = framed(seg_data, seg_winlen, seg_steplen)
    /\ seg_pc' = "done"
    /\ UNCHANGED <<seg_data, seg_winlen, seg_steplen, chanVars, patVars, restVars>>

NextSeg == SegCall

SpecSeg == InitSeg /\ [][NextSeg]_vars

(***************************************************************************)
(* C10.  For every input length L >= W, window W and step S with           *)
(* 0 < S <= W, the framing of my_specgram (segment_axis in 'cut' mode)     *)
(* yields exactly 1 + floor((L - W) / S) frames, frame k holds the samples *)
(* k*S .. k*S+W-1 in order, and the trailing samples that do not fill a    *)
(* complete window are in no frame (nothing is padded or wrapped around).  *)
(***************************************************************************)
SegValid ==
    /\ seg_pc = "done"
    /\ 0 < seg_steplen /\ seg_steplen <= seg_winlen
    /\ Len(seg_data) >= seg_winlen

FrameCountAndCoverage ==
    SegValid =>
      LET L == Len(seg_data)
          W == seg_winlen
          S == seg_steplen
          n == 1 + (L - W) \div S
          f == seg_ret.frames
      IN  /\ seg_ret.err = "none"
          /\ Len(f) = n
          /\ \A k \in 0..(n - 1) :
                /\ Len(f[k + 1]) = W
                /\ \A j \in 0..(W - 1) : f[k + 1][j + 1] = k * S + j
          /\ \A p \in 0..(L - 1) :
                p >= (n - 1) * S + W => \A k \in 1..Len(f) : p \notin Range(f[k])

\* A framing that drops trailing samples has happened: 3 frames of 4 over 9.
FrameCountWitness ==
    /\ SegValid
    /\ Len(seg_data) = 9 /\ seg_winlen = 4 /\ seg_steplen = 2
    /\ Len(seg_ret.frames) = 3
    /\ seg_ret.frames[3] = <<4, 5, 6, 7>>

(***************************************************************************)
(* Spec: one channel through wavdata2bip and is_bip_pattern, as in the     *)
(* loop of speaking_clock_detection (lines 223-224).                       *)
(*                                                                         *)
(* The channel is silent, constant, or silent up to an onset.  The rows of *)
(* the spectrogram of the frames that are not all zero follow a plan: a    *)
(* sequence of blocks <<number of frames, level>>, two consecutive blocks  *)
(* separated by one frame of Noise, and Noise after the last block.        *)
(***************************************************************************)
MaxFrames == 40
MaxBlocks == 2
MaxRun == 18

FramesLen(n) == winlen + (n - 1) * step
Lengths == {0, 1, winlen - 1, winlen, winlen + 1, FramesLen(2),
            FramesLen(3) - 1, FramesLen(MaxFrames)}

Silent(l) == [i \in 1..l |-> 0]
Const(l) == [i \in 1..l |-> 1]
Onset(l, k) == [i \in 1..l |-> IF i < k THEN 0 ELSE 1]

BlockLens == {1, 7, 8, 12, 16, 17}
Plans ==
    UNION {[1..m -> BlockLens \X Levels] : m \in 0..MaxBlocks}
      \cup {<<(<<n, lv>>)>> : n \in 1..MaxRun, lv \in Levels}

RECURSIVE PlanRows(_)
PlanRows(plan) ==
    IF plan = <<>> THEN <<>>
    ELSE [k \in 1..plan[1][1] |-> plan[1][2]] \o <<Noise>> \o PlanRows(Tail(plan))

\* the 0-based frame at which the last block of a plan starts
RECURSIVE LastStart(_)
LastStart(plan) ==
    IF Len(plan) <= 1 THEN 0
    ELSE plan[1][1] + 1 + LastStart(Tail(plan))

\* the plans for n frames: every block starts within the frames
PlansFor(n) == {plan \in Plans : plan = <<>> \/ LastStart(plan) < n}

Rows(zero, plan) ==
    LET pr == PlanRows(plan)
    IN  [k \in 1..Len(zero) |->
            IF zero[k] THEN ZeroRow
            ELSE IF k <= Len(pr) THEN pr[k] ELSE Noise]

Init ==
    /\ pc = "start"
    /\ \E l \in Lengths :
          wavdata \in {Silent(l), Const(l), Onset(l, l \div 2)}
    /\ specgram = <<>> /\ cand = <<>> /\ bips = <<>>
    /\ verdict = FALSE /\ exc = "none"
    /\ NoSeg /\ NoPat /\ NoRest

\* spec = my_specgram(wavdata, winlen, step, nfft)
Specgram ==
    /\ pc = "start"
    /\ \E fr \in {framed(preemp(wavdata), winlen, step)} :
          /\ fr.err = "none"
          /\ \E zero \in {[k \in 1..Len(fr.frames) |-> IsZeroFrame(fr.frames[k])]} :
                \E plan \in PlansFor(Len(zero)) : specgram' = Rows(zero, plan)
    /\ pc' = "spec"
    /\ UNCHANGED <<wavdata, cand, bips, verdict, exc, segVars, patVars, restVars>>

\* segment_axis raises: the exception leaves wavdata2bip and its caller
SpecgramRaises ==
    /\ pc = "start"
    /\ \E fr \in {framed(preemp(wavdata), winlen, step)} :
          /\ fr.err # "none"
          /\ exc' = fr.err
    /\ pc' = "raised"
    /\ UNCHANGED <<wavdata, specgram, cand, bips, verdict, segVars, patVars, restVars>>

\* idx, dur = contiguous_regions(energy_ratio > 0.5)
Regions ==
    /\ pc = "spec"
    /\ cand' = candidates(specgram)
    /\ pc' = "regions"
    /\ UNCHANGED <<wavdata, specgram, bips, verdict, exc, segVars, patVars, restVars>>

\* idx = idx[valid_durs]; dur = dur[valid_durs]
DurationFilter ==
    /\ pc = "regions"
    /\ cand' = duration_filter(cand)
    /\ pc' = "durs"
    /\ UNCHANGED <<wavdata, specgram, bips, verdict, exc, segVars, patVars, restVars>>

\* return [] or return idx[valid_energy] * step_sec
EnergyFilter ==
    /\ pc = "durs"
    /\ bips' = energy_filter(specgram, cand)
    /\ pc' = "bips"
    /\ UNCHANGED <<wavdata, specgram, cand, verdict, exc, segVars, patVars, restVars>>

\* is_bip_pattern(bips, wav_data.shape[0] / 4000.)
Classify ==
    /\ pc = "bips"
    /\ verdict' = is_bip_pattern(bips, Len(wavdata))
    /\ pc' = "done"
    /\ UNCHANGED <<wavdata, specgram, cand, bips, exc, segVars, patVars, restVars>>

Next ==
    \/ Specgram
    \/ SpecgramRaises
    \/ Regions
    \/ DurationFilter
    \/ EnergyFilter
    \/ Classify

Spec == Init /\ [][Next]_vars


(***************************************************************************)
(* C5.  A silent (all-zero) channel long enough to give at least one frame *)
(* raises nothing, every frame of it gets the energy ratio 0 with a        *)
(* non-zero denominator (no division by zero) and is in no candidate run,  *)
(* wavdata2bip returns the empty bip sequence, and is_bip_pattern returns  *)
(* false on it for any duration.                                           *)
(***************************************************************************)
Durations == {k * SampleRate : k \in {0, 1, 5, 59, 60, 61, 120, 600}}

IsSilentChannel == IsZeroFrame(wavdata) /\ Len(wavdata) >= winlen

SilentChannelNoBip ==
    IsSilentChannel =>
      /\ pc # "raised"
      /\ pc \in {"spec", "regions", "durs", "bips", "done"} =>
            /\ Len(specgram) >= 1
            /\ \A k \in 1..Len(specgram) :
                  /\ energy_ratio(specgram)[k].num = 0
                  /\ energy_ratio(specgram)[k].den # 0
                  /\ ~above_half(specgram)[k]
      /\ pc \in {"regions", "durs"} => cand = <<>>
      /\ pc \in {"bips", "done"} =>
            /\ bips = <<>>
            /\ \A d \in Durations : ~is_bip_pattern(bips, d)
      /\ pc = "done" => verdict = FALSE

\* a silent channel of several frames has gone through the whole analysis
SilentChannelWitness ==
    /\ IsSilentChannel
    /\ pc = "done"
    /\ Len(specgram) = MaxFrames
    /\ bips = <<>>
    /\ verdict = FALSE

(***************************************************************************)
(* C6.  A candidate run of n frames lasts (n-1)*8 ms + 32 ms and is kept   *)
(* by the duration filter exactly when that is strictly between 80 ms and  *)
(* 160 ms: a run of 7 frames (80 ms) or of 17 frames (160 ms) is dropped,  *)
(* and every run of 8 to 16 frames is kept.                                *)
(***************************************************************************)
DurationFilterStrict ==
    pc = "durs" =>
      /\ \A c \in Range(candidates(specgram)) :
            /\ (c \in Range(cand)) <=> (8 <= c[2] /\ c[2] <= 16)
            /\ (c \in Range(cand)) <=>
                  (80 < (c[2] - 1) * 8 + 32 /\ (c[2] - 1) * 8 + 32 < 160)
      /\ Range(cand) \subseteq Range(candidates(specgram))

\* a run of 7 frames was dropped and a run of 16 frames kept by the same filter
DurationFilterWitness ==
    /\ pc = "durs"
    /\ \E c \in Range(candidates(specgram)) : c[2] = 7 /\ c \notin Range(cand)
    /\ \E c \in Range(candidates(specgram)) : c[2] = 16 /\ c \in Range(cand)

(***************************************************************************)
(* C8, as stated: a channel of fewer samples than one window (128), or of  *)
(* no sample, takes an empty-result path: nothing is raised, no bip is     *)
(* found and the channel is classified as not matching.                    *)
(***************************************************************************)
IsShortChannel == Len(wavdata) < winlen

RunEnergy(c) ==
    SumSeq(SubSeq(energy_all(specgram), c[1] + 1, c[1] + c[2]))

\* mean energy of c > 0.2 * mean energy of m
AboveFifth(c, m) == 5 * RunEnergy(c) * m[2] > RunEnergy(m) * c[2]

PassedBothFilters(c) ==
    /\ c \in Range(candidates(specgram))
    /\ 80 < (c[2] - 1) * 8 + 32 /\ (c[2] - 1) * 8 + 32 < 160
    /\ \A m \in Range(candidates(specgram)) :
          (8 <= m[2] /\ m[2] <= 16) => AboveFifth(c, m)

BipsIncreasingOnRunStarts ==
    pc \in {"bips", "done"} =>
      LET t == bip_times_ms(bips)
      IN  /\ \A k \in 1..(Len(t) - 1) : t[k] < t[k + 1]
          /\ \A k \in 1..Len(t) :
                /\ t[k] >= 0 /\ t[k] % 8 = 0
                /\ \E c \in Range(candidates(specgram)) :
                      /\ PassedBothFilters(c)
                      /\ t[k] = c[1] * 8
                      /\ k < Len(t) => (c[1] + c[2]) * 8 < t[k + 1]

\* two bips were returned, at 0 ms and 104 ms: a run of 12 frames, one
\* frame of noise, a second run
BipsIncreasingWitness ==
    /\ pc = "done"
    /\ bips = <<0, 13>>
    /\ bip_times_ms(bips) = <<0, 104>>
    /\ <<0, 12>> \in Range(cand)

\* a bip that is not at the start of the channel: the run begins with the
\* first frame that is not silent
BipsAfterOnset ==
    /\ pc = "done"
    /\ Len(bips) = 1 /\ bips[1] > 0
    /\ specgram[bips[1]] = ZeroRow

(***************************************************************************)
(* C13.  After the duration filter, wavdata2bip keeps exactly the runs     *)
(* whose mean total energy over their frames is strictly above 0.2 times   *)
(* the largest such mean among the runs that survived the duration filter, *)
(* one maximum for the whole channel; when no run survived the duration    *)
(* filter the result is empty.                                             *)
(***************************************************************************)
EnergyFilterRelative ==
    pc \in {"bips", "done"} =>
      /\ cand = duration_filter(candidates(specgram))
      /\ cand = <<>> => bips = <<>>
      /\ \A c \in Range(cand) :
            (c[1] \in Range(bips)) <=> (\A m \in Range(cand) : AboveFifth(c, m))
      /\ \A b \in Range(bips) : \E c \in Range(cand) : c[1] = b
      /\ Len(bips) = Cardinality(Range(bips))

\* a run whose mean energy is exactly 0.2 times the largest was dropped,
\* and the loudest run kept
EnergyFilterWitness ==
    /\ pc = "bips"
    /\ Len(cand) = 2 /\ Len(bips) = 1
    /\ \E c \in Range(cand), m \in Range(cand) :
          /\ c[1] \notin Range(bips) /\ m[1] \in Range(bips)
          /\ 5 * RunEnergy(c) * m[2] = RunEnergy(m) * c[2]

\* runs were found but none survived the duration filter: the result is empty
EnergyFilterNothingLeft ==
    /\ pc = "bips"
    /\ candidates(specgram) # <<>>
    /\ cand = <<>> /\ bips = <<>>

(***************************************************************************)
(* SpecRegions: contiguous_regions on every non-empty boolean sequence of  *)
(* the bound (wavdata2bip never calls it on an empty one: a spectrogram    *)
(* has at least one frame).                                                *)
(***************************************************************************)
MaxBool == 7

BoolSeqs == UNION {[1..n -> BOOLEAN] : n \in 1..MaxBool}

InitRegions ==
    /\ reg_pc = "call"
    /\ reg_bool \in BoolSeqs
    /\ reg_ret = <<>>
    /\ NoSeg /\ NoChan /\ NoPat /\ NoSel /\ NoPhase /\ NoPool

RegionsCall ==
    /\ reg_pc = "call"
    /\ reg_ret' = contiguous_regions(reg_bool)
    /\ reg_pc' = "done"
    /\ UNCHANGED <<reg_bool, segVars, chanVars, patVars, selVars, phVars, poolVars>>

NextRegions == RegionsCall

SpecRegions == InitRegions /\ [][NextRegions]_vars

(***************************************************************************)
(* C12.  For every non-empty boolean sequence, contiguous_regions returns  *)
(* exactly the maximal runs of true values, in increasing order, each as   *)
(* <<start index, run length>>: the runs are non-empty, pairwise disjoint  *)
(* and not adjacent, they cover exactly the true positions, a run starting *)
(* at index 0 or ending at the last index is included, and an all-false    *)
(* sequence gives no run.                                                  *)
(***************************************************************************)
\* the 0-based positions of a run <<start, length>>
RunPositions(r) == r[1]..(r[1] + r[2] - 1)

MaximalRuns ==
    reg_pc = "done" =>
      LET n == Len(reg_bool)
          r == reg_ret
          isTrue(i) == reg_bool[i + 1]
      IN  /\ \A k \in 1..Len(r) :
                /\ r[k][2] >= 1
                /\ RunPositions(r[k]) \subseteq 0..(n - 1)
                /\ \A i \in RunPositions(r[k]) : isTrue(i)
                /\ r[k][1] > 0 => ~isTrue(r[k][1] - 1)
                /\ r[k][1] + r[k][2] < n => ~isTrue(r[k][1] + r[k][2])
          /\ \A k \in 1..(Len(r) - 1) : r[k][1] + r[k][2] < r[k + 1][1]
          /\ \A i \in 0..(n - 1) :
                isTrue(i) <=> \E k \in 1..Len(r) : i \in RunPositions(r[k])
          /\ isTrue(0) => (r # <<>> /\ r[1][1] = 0)
          /\ isTrue(n - 1) =>
                (r # <<>> /\ r[Len(r)][1] + r[Len(r)][2] = n)
          /\ (\A i \in 0..(n - 1) : ~isTrue(i)) => r = <<>>

\* three runs, the first from index 0 and the last up to the last index
MaximalRunsWitness ==
    /\ reg_pc = "done"
    /\ reg_bool = <<TRUE, TRUE, FALSE, TRUE, FALSE, FALSE, TRUE>>
    /\ reg_ret = << <<0, 2>>, <<3, 1>>, <<6, 1>> >>

\* an all-false sequence has given no run
MaximalRunsNone ==
    /\ reg_pc = "done"
    /\ reg_bool = <<FALSE, FALSE, FALSE>>
    /\ reg_ret = <<>>

(***************************************************************************)
(* SpecPattern: is_bip_pattern on bip lists and durations.  A list is      *)
(* empty, or built from a first run of equal gaps followed by a second     *)
(* one, or it is the speaking clock's own sequence below the duration.     *)
(* The gaps, in frames of 8 ms, are taken on both sides of the roundings   *)
(* to 0, 1, 2 and 10 seconds; the durations, in samples, on both sides of  *)
(* the thresholds of the rule.                                             *)
(***************************************************************************)
MaxRep == 12
MaxOther == 3
MinClockSec == 100
MaxClockSec == 300

FramesPerSec == 1000 \div StepMs
GapFrames == {62, 63, 187, 188, 250, 1188, 10 * FramesPerSec, 17 * FramesPerSec}
PatternDurs == {0, 19999, 20000, 20001, 100000, 100001, 200000, 239999,
                240000, 240001, 250000, 262500, 300000}

RECURSIVE FromGaps(_, _)
FromGaps(first, gaps) ==
    IF gaps = <<>> THEN <<first>>
    ELSE <<first>> \o FromGaps(first + gaps[1], Tail(gaps))

Rep(g, n) == [k \in 1..n |-> g]

GapLists ==
    {FromGaps(0, Rep(g1, a) \o Rep(g2, b)) :
        g1 \in GapFrames, g2 \in GapFrames, a \in 0..MaxRep, b \in 0..MaxOther}

RECURSIVE SortedSeq(_)
SortedSeq(S) ==
    IF S = {} THEN <<>>
    ELSE LET m == CHOOSE x \in S : \A y \in S : x <= y
         IN  <<m>> \o SortedSeq(S \ {m})

\* the speaking clock: a bip at the seconds 0, 10, 20, 30, 40, 57, 58, 59
\* of every minute
ClockOffsets == {0, 10, 20, 30, 40, 57, 58, 59}
ClockFrames(minutes) ==
    {(60 * m + o) * FramesPerSec : m \in 0..minutes, o \in ClockOffsets}

\* all the clock's bips strictly below a duration given in samples
ClockBelow(samples) ==
    SortedSeq({t \in ClockFrames(samples \div (60 * SampleRate)) :
                  t * step < samples})

\* the durations of the clock sequences: every half second of the range,
\* and one sample after every whole second
ClockDurs ==
    {h * (SampleRate \div 2) : h \in (2 * MinClockSec)..(2 * MaxClockSec)}
      \cup {k * SampleRate + 1 : k \in MinClockSec..MaxClockSec}

InitPattern ==
    /\ pat_pc = "call"
    /\ \/ pat_bips \in GapLists \cup {<<>>} /\ pat_dur \in PatternDurs
       \/ pat_dur \in ClockDurs /\ pat_bips = ClockBelow(pat_dur)
    /\ pat_ret = FALSE
    /\ NoSeg /\ NoChan /\ NoRest

PatternCall ==
    /\ pat_pc = "call"
    /\ pat_ret' = is_bip_pattern(pat_bips, pat_dur)
    /\ pat_pc' = "done"
    /\ UNCHANGED <<pat_bips, pat_dur, segVars, chanVars, restVars>>

NextPattern == PatternCall

SpecPattern == InitPattern /\ [][NextPattern]_vars

(***************************************************************************)
(* C2.  For a non-empty bip sequence, is_bip_pattern returns true exactly  *)
(* when (nb1 + nb10 + nb17) > 4 * nbOther and the number of gaps is within *)
(* the bounds of the duration: the gaps are the consecutive differences    *)
(* rounded to the nearest second, numDiffs = number of bips - 1 and        *)
(* estBips = duration / 60 * 8; below 60 s the bounds are inclusive,       *)
(* 0.3 * estBips <= numDiffs <= 1.5 * estBips, and from 60 s on (60 s      *)
(* included) strict, 0.8 * estBips < numDiffs < 1.2 * estBips.             *)
(* With the duration in samples at 4000 Hz, estBips = samples / 30000.     *)
(***************************************************************************)
Abs(x) == IF x < 0 THEN 0 - x ELSE x

\* the whole number of seconds nearest to a gap of f frames of 8 ms
NearestSecond(f) ==
    CHOOSE g \in 0..(f \div 125 + 1) : 2 * Abs(8 * f - 1000 * g) <= 1000

RuleAccepts(b, samples) ==
    LET numDiffs == Len(b) - 1
        gap == [k \in 1..numDiffs |-> NearestSecond(b[k + 1] - b[k])]
        good == Cardinality({k \in 1..numDiffs : gap[k] \in {1, 10, 17}})
        nbOther == numDiffs - good
    IN  /\ good > 4 * nbOther
        /\ IF samples < 60 * 4000
           THEN 3 * samples <= 300000 * numDiffs
                /\ 300000 * numDiffs <= 15 * samples
           ELSE 8 * samples < 300000 * numDiffs
                /\ 300000 * numDiffs < 12 * samples

PatternRule ==
    (pat_pc = "done" /\ Len(pat_bips) > 0) =>
        (pat_ret <=> RuleAccepts(pat_bips, pat_dur))

\* a single gap of one second over 25 s sits on the inclusive lower bound
\* 0.3 * estBips = 1 and is accepted
PatternRuleWitness ==
    /\ pat_pc = "done"
    /\ pat_dur = 100000
    /\ Len(pat_bips) = 2
    /\ dbip(pat_bips) = <<1>>
    /\ pat_ret = TRUE

\* at exactly 60 s the strict bounds apply: 10 valid gaps, within the
\* inclusive bounds 2.4 .. 12, are beyond 1.2 * estBips = 9.6 and rejected
PatternRuleAtSixty ==
    /\ pat_pc = "done"
    /\ pat_dur = 240000
    /\ Len(pat_bips) = 11
    /\ \A k \in 1..10 : dbip(pat_bips)[k] = 10
    /\ pat_ret = FALSE

(***************************************************************************)
(* C7.  For every analyzed duration D >= 120 s, the bip sequence made of   *)
(* all the speaking clock's times below D (the seconds 0, 10, 20, 30, 40,  *)
(* 57, 58, 59 of each minute, from time 0) is accepted by is_bip_pattern.  *)
(***************************************************************************)
ClockAccepted ==
    (/\ pat_pc = "done"
     /\ pat_dur >= 120 * SampleRate
     /\ pat_bips = ClockBelow(pat_dur)) => pat_ret = TRUE

\* the clock over 177 s: 21 bips, 20 gaps, the nearest to the lower bound
\* 0.8 * estBips = 18.88
ClockAcceptedWitness ==
    /\ pat_pc = "done"
    /\ pat_dur = 177 * SampleRate
    /\ pat_bips = ClockBelow(pat_dur)
    /\ Len(pat_bips) = 21
    /\ pat_ret = TRUE

\* below 120 s the clock's own sequence can be rejected: over 117 s,
\* 12 gaps are not above 0.8 * estBips = 12.48
ClockRejectedBelowTwoMinutes ==
    /\ pat_pc = "done"
    /\ pat_dur = 117 * SampleRate
    /\ pat_bips = ClockBelow(pat_dur)
    /\ pat_ret = FALSE

(***************************************************************************)
(* C14.  is_bip_pattern never accepts a clip whose duration is below 5 s   *)
(* (20000 samples at 4000 Hz), and never accepts a sequence of fewer than  *)
(* 2 bips, whatever the duration: an accepted sequence has at least one    *)
(* gap of 1, 10 or 17 s, while below 5 s the upper bound 1.5 * estBips is  *)
(* below 1.                                                                *)
(***************************************************************************)
ShortOrSingleRejected ==
    pat_pc = "done" =>
      /\ pat_dur < 5 * SampleRate => pat_ret = FALSE
      /\ Len(pat_bips) < 2 => pat_ret = FALSE
      /\ pat_ret = TRUE =>
            \E k \in 1..(Len(pat_bips) - 1) : dbip(pat_bips)[k] \in {1, 10, 17}

\* two bips one second apart, one sample short of 5 s: rejected
ShortRejectedWitness ==
    /\ pat_pc = "done"
    /\ pat_dur = 5 * SampleRate - 1
    /\ Len(pat_bips) = 2
    /\ dbip(pat_bips) = <<1>>
    /\ pat_ret = FALSE

\* the same two bips at exactly 5 s are accepted: 1 <= 1.5 * estBips = 1
AcceptedAtFiveSeconds ==
    /\ pat_pc = "done"
    /\ pat_dur = 5 * SampleRate
    /\ Len(pat_bips) = 2
    /\ dbip(pat_bips) = <<1>>
    /\ pat_ret = TRUE

\* a single bip over a duration of 0: no gap, both bounds are 0, rejected
\* by the strict comparison 0 > 4 * 0
SingleBipRejected ==
    /\ pat_pc = "done"
    /\ pat_dur = 0
    /\ Len(pat_bips) = 1
    /\ pat_ret = FALSE

(***************************************************************************)
(* speaking_clock_detection, lines 227-232: the reduction of the list ret  *)
(* of the matching channels.                                               *)
(***************************************************************************)
NoClock == -1
AmbiguousMultiple == -2

detection_result_first(ret) ==
    IF Len(ret) = 0 THEN NoClock ELSE ret[1]

detection_result(ret) ==
    IF Len(ret) = 0 THEN NoClock
    ELSE IF Len(ret) = 1 THEN ret[1]
    ELSE AmbiguousMultiple

\* scripts/speaking_clock_detection.py, lines 329-335: the token printed
output_token(ret) ==
    IF ret >= 0 THEN <<"SPEAKING_CLOCK_TRACK", ret>>
    ELSE IF ret = -1 THEN <<"SPEAKING_CLOCK_NONE">>
    ELSE IF ret = -2 THEN <<"SPEAKING_CLOCK_MULTIPLE">>
    ELSE <<"AssertionError">>

(***************************************************************************)
(* SpecSelect: speaking_clock_detection on a decoded clip.  Each channel   *)
(* is given by the bip sequence wavdata2bip finds on it: none, the         *)
(* speaking clock's, bips every 10 s from second 1, or bips every 2 s.     *)
(***************************************************************************)
MaxChannels == 3

SelectDurs == {50 * SampleRate, 120 * SampleRate}
ChannelBips(samples) ==
    {<<>>, ClockBelow(samples),
     FromGaps(FramesPerSec, Rep(10 * FramesPerSec, samples \div (10 * SampleRate) - 1)),
     FromGaps(0, Rep(2 * FramesPerSec, samples \div (8 * SampleRate)))}

InitSelect ==
    /\ sel_pc = "loop"
    /\ sel_dur \in SelectDurs
    /\ \E n \in 1..MaxChannels : sel_chan \in [1..n -> ChannelBips(sel_dur)]
    /\ sel_i = 0
    /\ sel_ret = <<>>
    /\ sel_out = <<>>
    /\ sel_token = <<>>
    /\ NoSeg /\ NoChan /\ NoPat /\ NoPhase /\ NoPool /\ NoReg

\* for i in range(wav_data.shape[1]): one iteration
SelectLoop ==
    /\ sel_pc = "loop"
    /\ sel_i < Len(sel_chan)
    /\ sel_ret' = IF is_bip_pattern(sel_chan[sel_i + 1], sel_dur)
                  THEN Append(sel_ret, sel_i)
                  ELSE sel_ret
    /\ sel_i' = sel_i + 1
    /\ UNCHANGED <<sel_pc, sel_chan, sel_dur, sel_out, sel_token>>
    /\ UNCHANGED <<segVars, chanVars, patVars, phVars, poolVars, regVars>>

\* the loop is over: the function returns, and the script prints
SelectReturn ==
    /\ sel_pc = "loop"
    /\ sel_i = Len(sel_chan)
    /\ sel_out' = <<detection_result(sel_ret)>>
    /\ sel_token' = output_token(detection_result(sel_ret))
    /\ sel_pc' = "done"
    /\ UNCHANGED <<sel_chan, sel_dur, sel_i, sel_ret>>
    /\ UNCHANGED <<segVars, chanVars, patVars, phVars, poolVars, regVars>>

NextSelect ==
    \/ SelectLoop
    \/ SelectReturn

SpecSelect == InitSelect /\ [][NextSelect]_vars

(***************************************************************************)
(* C1.  speaking_clock_detection returns -1 when no channel matches, the   *)
(* 0-based index of the channel when exactly one matches, and -2 when      *)
(* more than one matches: always -2, -1 or a valid channel index.          *)
(***************************************************************************)
Matching ==
    {i \in 0..(Len(sel_chan) - 1) : is_bip_pattern(sel_chan[i + 1], sel_dur)}

SelectionResult ==
    sel_pc = "done" =>
      /\ Len(sel_out) = 1
      /\ Matching = {} => sel_out[1] = -1
      /\ Cardinality(Matching) = 1 => sel_out[1] \in Matching
      /\ Cardinality(Matching) > 1 => sel_out[1] = -2
      /\ sel_out[1] \in {-2, -1} \cup (0..(Len(sel_chan) - 1))
      /\ sel_token # <<"AssertionError">>

\* of three channels only the last matches, and its index is returned
SelectionWitness ==
    /\ sel_pc = "done"
    /\ Len(sel_chan) = 3
    /\ Matching = {2}
    /\ sel_out = <<2>>

\* two channels match and the result is -2
SelectionAmbiguous ==
    /\ sel_pc = "done"
    /\ Cardinality(Matching) = 2
    /\ sel_out = <<-2>>

(***************************************************************************)
(* phase_inversion_detection, lines 237-245.  wav_data is a sequence of    *)
(* frames, each of nbchan samples; the samples are whole numbers (16 bit   *)
(* samples: their products and the sum are exact in double precision).     *)
(***************************************************************************)
Normal == 0
Inverted == 1
Unsupported == -1

correlation(wav_data) ==
    SumSeq([i \in 1..Len(wav_data) |-> wav_data[i][1] * wav_data[i][2]])

phase_inversion_detection_leq(wav_data, nbchan) ==
    IF nbchan = 1 THEN Normal
    ELSE IF nbchan > 2 THEN Unsupported
    ELSE IF correlation(wav_data) <= 0 THEN Inverted
    ELSE Normal

phase_inversion_detection_pos(wav_data, nbchan) ==
    IF nbchan = 1 THEN Normal
    ELSE IF nbchan > 2 THEN Unsupported
    ELSE IF correlation(wav_data) > 0 THEN Inverted
    ELSE Normal

phase_inversion_detection(wav_data, nbchan) ==
    IF nbchan = 1 THEN Normal
    ELSE IF nbchan > 2 THEN Unsupported
    ELSE IF correlation(wav_data) < 0 THEN Inverted
    ELSE Normal

(***************************************************************************)
(* SpecPhase: phase_inversion_detection on every clip of 1 to 3 channels   *)
(* of the bounds.                                                          *)
(***************************************************************************)
MaxSamples == 2

PhaseChannels == {1, 2, 3}
SampleVals == {-1, 0, 1, 2}

InitPhase ==
    /\ ph_pc = "call"
    /\ ph_nbchan \in PhaseChannels
    /\ \E n \in 1..MaxSamples : ph_wav \in [1..n -> [1..ph_nbchan -> SampleVals]]
    /\ ph_out = <<>>
    /\ NoSeg /\ NoChan /\ NoPat /\ NoSel /\ NoPool /\ NoReg

PhaseCall ==
    /\ ph_pc = "call"
    /\ ph_out' = <<phase_inversion_detection(ph_wav, ph_nbchan)>>
    /\ ph_pc' = "done"
    /\ UNCHANGED <<ph_nbchan, ph_wav>>
    /\ UNCHANGED <<segVars, chanVars, patVars, selVars, poolVars, regVars>>

NextPhase == PhaseCall

SpecPhase == InitPhase /\ [][NextPhase]_vars

(***************************************************************************)
(* C3.  phase_inversion_detection returns Normal (0) on 1 channel,         *)
(* Unsupported (-1), which is neither polarity value, on more than 2       *)
(* channels, and on exactly 2 channels Inverted (1) when the sum over all  *)
(* samples of channel0[i] * channel1[i] is strictly negative and Normal    *)
(* (0) otherwise, a sum of exactly zero included.                          *)
(***************************************************************************)
RECURSIVE DotProduct(_, _)
DotProduct(w, n) ==
    IF n = 0 THEN 0 ELSE DotProduct(w, n - 1) + w[n][1] * w[n][2]

PhaseVerdict ==
    ph_pc = "done" =>
      /\ Len(ph_out) = 1
      /\ ph_nbchan = 1 => ph_out[1] = 0
      /\ ph_nbchan > 2 => (ph_out[1] = -1 /\ ph_out[1] \notin {0, 1})
      /\ ph_nbchan = 2 =>
            /\ DotProduct(ph_wav, Len(ph_wav)) < 0 => ph_out[1] = 1
            /\ DotProduct(ph_wav, Len(ph_wav)) >= 0 => ph_out[1] = 0

\* two channels whose products cancel to exactly zero: Normal
PhaseVerdictWitness ==
    /\ ph_pc = "done"
    /\ ph_nbchan = 2
    /\ ph_wav = << <<1, 1>>, <<1, -1>> >>
    /\ ph_out = <<0>>

(***************************************************************************)
(* C4, as stated: for every 2-channel input in which channel 1 is the      *)
(* exact sample-by-sample negation of channel 0, phase_inversion_detection *)
(* returns Inverted.                                                       *)
(***************************************************************************)
IsNegated ==
    /\ ph_nbchan = 2
    /\ \A i \in 1..Len(ph_wav) : ph_wav[i][2] = 0 - ph_wav[i][1]

NegationInverted ==
    (ph_pc = "done" /\ IsNegated) => ph_out = <<1>>

(***************************************************************************)
(* C4, amended: for every 2-channel input in which channel 1 is the exact  *)
(* negation of channel 0 and at least one sample is not zero,              *)
(* phase_inversion_detection returns Inverted; when every sample is zero   *)
(* the sum is 0 and it returns Normal.                                     *)
(***************************************************************************)
HasSignal == \E i \in 1..Len(ph_wav) : ph_wav[i][1] # 0

NegationInvertedUnlessSilent ==
    (ph_pc = "done" /\ IsNegated) =>
        /\ HasSignal => ph_out = <<1>>
        /\ ~HasSignal => ph_out = <<0>>

\* a negated pair with signal has been found Inverted
NegationWitness ==
    /\ ph_pc = "done"
    /\ IsNegated
    /\ ph_wav = << <<1, -1>>, <<-1, 1>> >>
    /\ ph_out = <<1>>

\* a silent negated pair has been found Normal
NegationSilent ==
    /\ ph_pc = "done"
    /\ IsNegated
    /\ ph_wav = << <<0, 0>>, <<0, 0>> >>
    /\ ph_out = <<0>>

(***************************************************************************)
(* SpecPool: analyses of different media files run at the same time, each  *)
(* by its own worker process, over one temporary directory.                *)
(*                                                                         *)
(* A media file is <<directory, file name>>.  An analysis decodes it with  *)
(* decode_media (scripts/speaking_clock_detection.py), which writes the    *)
(* wav to tmpdir/<file name>.wav, reads it back and removes it, or with    *)
(* TmpWavDecoder (inaudible/speaking_clock_detection.py), which reads      *)
(* ffmpeg's output from an anonymous TemporaryFile of its own.  The        *)
(* decoded data stands for the media it was decoded from.  tmpfiles is the *)
(* set of <<file name, media decoded into it>> of the directory.           *)
(*                                                                         *)
(* When its output file exists, ffmpeg (run without -y) either refuses to  *)
(* write and fails, or overwrites it when told to: both are modelled.      *)
(***************************************************************************)
NWorkers == 2

Workers == 1..NWorkers
Media == {<<"a", "x.mp4">>, <<"b", "x.mp4">>, <<"a", "y.mp4">>}
Decoders == {"decode_media", "TmpWavDecoder"}
NoData == <<>>

tmp_wav(w) == job[w].media[2]
exists(name) == \E f \in tmpfiles : f[1] = name

poolRest == <<segVars, chanVars, patVars, selVars, phVars, regVars>>

Fail(w, e) == job' = [job EXCEPT ![w].pc = "failed", ![w].outcome = e]

InitPool ==
    /\ \E m \in [Workers -> Media], d \in [Workers -> Decoders] :
          /\ \A v, w \in Workers : v # w => m[v] # m[w]
          /\ job = [w \in Workers |->
                      [media |-> m[w], decoder |-> d[w],
                       pc |-> IF d[w] = "decode_media" THEN "check" ELSE "pipe",
                       got |-> NoData, outcome |-> "running"]]
    /\ tmpfiles = {}
    /\ NoSeg /\ NoChan /\ NoPat /\ NoSel /\ NoPhase /\ NoReg

\* decode_media, lines 131-136: assert not os.path.exists(tmp_wav)
Check(w) ==
    /\ job[w].pc = "check"
    /\ IF exists(tmp_wav(w))
       THEN Fail(w, "AssertionError")
       ELSE job' = [job EXCEPT ![w].pc = "ffmpeg"]
    /\ UNCHANGED tmpfiles
    /\ UNCHANGED poolRest

\* decode_media, lines 139-141: ffmpeg writes tmp_wav
FfmpegWrites(w) ==
    /\ job[w].pc = "ffmpeg"
    /\ tmpfiles' = {f \in tmpfiles : f[1] # tmp_wav(w)}
                      \cup {<<tmp_wav(w), job[w].media>>}
    /\ job' = [job EXCEPT ![w].pc = "read"]
    /\ UNCHANGED poolRest

\* decode_media, lines 142-146: ffmpeg finds the file and fails; the handler
\* removes tmp_wav and raises
FfmpegRefuses(w) ==
    /\ job[w].pc = "ffmpeg"
    /\ exists(tmp_wav(w))
    /\ tmpfiles' = {f \in tmpfiles : f[1] # tmp_wav(w)}
    /\ Fail(w, "CalledProcessError")
    /\ UNCHANGED poolRest

\* decode_media, line 149: soundfile.read(tmp_wav)
Read(w) ==
    /\ job[w].pc = "read"
    /\ IF exists(tmp_wav(w))
       THEN \E f \in tmpfiles :
               /\ f[1] = tmp_wav(w)
               /\ job' = [job EXCEPT ![w].pc = "remove", ![w].got = f[2]]
       ELSE Fail(w, "LibsndfileError")
    /\ UNCHANGED tmpfiles
    /\ UNCHANGED poolRest

\* decode_media, line 150: os.remove(tmp_wav)
Remove(w) ==
    /\ job[w].pc = "remove"
    /\ IF exists(tmp_wav(w))
       THEN /\ tmpfiles' = {f \in tmpfiles : f[1] # tmp_wav(w)}
            /\ job' = [job EXCEPT ![w].pc = "analyse"]
       ELSE /\ Fail(w, "FileNotFoundError")
            /\ UNCHANGED tmpfiles
    /\ UNCHANGED poolRest
    /\ UNCHANGED poolRest

\* TmpWavDecoder.__call__, lines 47-54: decoding through a file of its own
PipeDecode(w) ==
    /\ job[w].pc = "pipe"
    /\ job' = [job EXCEPT ![w].pc = "analyse", ![w].got = job[w].media]
    /\ UNCHANGED tmpfiles
    /\ UNCHANGED poolRest

\* the loop over the channels and the reduction: a function of the data
Analyse(w) ==
    /\ job[w].pc = "analyse"
    /\ job' = [job EXCEPT ![w].pc = "done", ![w].outcome = "ok"]
    /\ UNCHANGED tmpfiles
    /\ UNCHANGED poolRest

NextPool ==
    \E w \in Workers :
        \/ Check(w)
        \/ FfmpegWrites(w)
        \/ FfmpegRefuses(w)
        \/ Read(w)
        \/ Remove(w)
        \/ PipeDecode(w)
        \/ Analyse(w)

SpecPool == InitPool /\ [][NextPool]_vars

(***************************************************************************)
(* C9.  Analyses of different media files run concurrently are fully       *)
(* independent: under every interleaving each analysis ends with the       *)
(* outcome it has when run alone (it succeeds, on the data of its own      *)
(* media); no shared resource lets one analysis make another fail or       *)
(* change its result.                                                      *)
(***************************************************************************)
Ended(w) == job[w].pc \in {"done", "failed"}

AnalysesIndependent ==
    \A w \in Workers :
        Ended(w) => (job[w].outcome = "ok" /\ job[w].got = job[w].media)

\* the analyses that decode with TmpWavDecoder do end as when run alone
PipeAnalysesIndependent ==
    \A w \in Workers :
        (Ended(w) /\ job[w].decoder = "TmpWavDecoder") =>
            (job[w].outcome = "ok" /\ job[w].got = job[w].media)

\* decode_media is safe between media files of different names
DistinctNamesIndependent ==
    \A w \in Workers :
        (Ended(w) /\ \A v \in Workers : v # w => tmp_wav(v) # tmp_wav(w)) =>
            (job[w].outcome = "ok" /\ job[w].got = job[w].media)

=============================================================================
